---- MODULE Spec2Model ----
(***************************************************************************)
(* Simon-says memory game (src/app.js): the round / sequence state machine *)
(* with its event listeners and the timer-driven sequence playback.        *)
(*                                                                         *)
(* The page is single threaded: every listener and every continuation of   *)
(* an async function runs to its next await without interruption, so each  *)
(* of them is one action.  Pending playbacks (async calls suspended in     *)
(* delay()) are kept in the bag `tasks`.  Timers of different playbacks    *)
(* may fire in any order (the user decides when the playbacks start).      *)
(***************************************************************************)
EXTENDS Integers, Sequences, FiniteSets, Bags, TLC

VARIABLES
    currentRound,      \* let currentRound
    gameSequence,      \* let gameSequence
    userSequence,      \* let userSequence
    currentStep,       \* let currentStep
    difficulty,        \* let difficulty
    errorCount,        \* let errorCount
    keyboardStatus,    \* let keyboardStatus
    startDisplay,      \* startRoundButton is displayed (style.display)
    startDisabled,     \* startRoundButton.disabled
    newGameDisplay,    \* newGameButton is displayed
    newGameDisabled,   \* newGameButton.disabled
    repeatDisplay,     \* repeatSequenceButton is displayed
    repeatDisabled,    \* repeatSequenceButton.disabled
    inactive,          \* the difficulty items carry the class "inactive"
    alphaDisplay,      \* the digit keyboard (#alpha) is displayed
    betaDisplay,       \* the letter keyboard (#beta) is displayed
    tasks,             \* bag of suspended async calls (startRound, repeat)
    event,             \* kind of the event handled by the last step
    calls              \* number of handleUserInput calls made by the last step

gameVars == <<currentRound, gameSequence, userSequence, currentStep,
              difficulty, errorCount, keyboardStatus>>

uiVars == <<startDisplay, startDisabled, newGameDisplay, newGameDisabled,
            repeatDisplay, repeatDisabled, inactive, alphaDisplay,
            betaDisplay>>

vars == <<currentRound, gameSequence, userSequence, currentStep, difficulty,
          errorCount, keyboardStatus, startDisplay, startDisabled,
          newGameDisplay, newGameDisabled, repeatDisplay, repeatDisabled,
          inactive, alphaDisplay, betaDisplay, tasks, event, calls>>

----------------------------------------------------------------------------
(* Bounds of the model *)

\* Math.random() takes the values j / RandomResolution, 0 <= j < RandomResolution
RandomResolution == 1

\* the same, for the specification that only runs generateSequence
GenRandomResolution == 2

\* at most this many suspended async calls (playbacks) at a time
MaxTasks == 1

\* the same, for the specification of overlapping playbacks
MaxRaceTasks == 2

----------------------------------------------------------------------------
(* Program constants *)

maxRounds == 5

keysEasy == <<"1", "2", "3", "4", "5", "6", "7", "8", "9", "0">>

keysMedium == <<"Q", "W", "E", "R", "T", "Y", "U", "I", "O", "P",
                "A", "S", "D", "F", "G", "H", "J", "K", "L",
                "Z", "X", "C", "V", "B", "N", "M">>

keysHard == keysEasy \o keysMedium

Difficulties == {"easy", "medium", "hard"}

Range(f) == {f[i] : i \in DOMAIN f}

\* labels of the on-screen keys of the two keyboards
keyboardLayoutAlpha == Range(keysEasy)

keyboardLayoutBeta == Range(keysMedium)

\* the lower-case letters, in the order of keysMedium
lowerCase == <<"q", "w", "e", "r", "t", "y", "u", "i", "o", "p",
               "a", "s", "d", "f", "g", "h", "j", "k", "l",
               "z", "x", "c", "v", "b", "n", "m">>

\* values of event.key of a keydown event
EventKeys == Range(keysHard) \cup Range(lowerCase) \cup {"Enter", " ", "Shift"}

\* String.prototype.toUpperCase on the values of EventKeys
toUpperCase(key) ==
    IF \E i \in DOMAIN lowerCase : lowerCase[i] = key
    THEN keysMedium[CHOOSE i \in DOMAIN lowerCase : lowerCase[i] = key]
    ELSE IF key = "Enter" THEN "ENTER"
    ELSE IF key = "Shift" THEN "SHIFT"
    ELSE key

----------------------------------------------------------------------------
(* Sequence generation *)

\* Math.floor(Math.random() * n) for the values Math.random() can take
RandomKeyIndex(n, resolution) ==
    {(j * n) \div resolution : j \in 0 .. resolution - 1}

\* the symbols the sequences of the model are made of
GeneratedKeys ==
    UNION {{keys[idx + 1] : idx \in RandomKeyIndex(Len(keys), RandomResolution)} :
           keys \in {keysEasy, keysMedium, keysHard}}

\* the keys the player of the model types: the symbols of the sequences, of
\* each alphabet a symbol that is in no sequence, a lower-case letter and a
\* key that is no symbol
TypedKeys == GeneratedKeys \cup {"2", "W", "q", "Enter"}

\* the on-screen keys the player of the model clicks
ClickedKeys == GeneratedKeys \cup {"2", "W"}

sequenceLength_fromZero(round) == 2 + round * 2

sequenceLength(round) == 2 + (round - 1) * 2

\* the for loop of generateSequence: from i on, push a random key each turn
RECURSIVE pushLoop(_, _, _, _, _)
pushLoop(i, length, keys, resolution, sequence) ==
    IF i < length
    THEN UNION {pushLoop(i + 1, length, keys, resolution,
                         Append(sequence, keys[idx + 1])) :
                idx \in RandomKeyIndex(Len(keys), resolution)}
    ELSE {sequence}

generateSequence_noEasy(round, diff, resolution) ==
    IF diff = "hard"
    THEN pushLoop(0, sequenceLength(round), keysHard, resolution, <<>>)
    ELSE pushLoop(0, sequenceLength(round), keysMedium, resolution, <<>>)

\* the set of sequences generateSequence(round) can return
generateSequence(round, diff, resolution) ==
    IF diff = "hard"
    THEN pushLoop(0, sequenceLength(round), keysHard, resolution, <<>>)
    ELSE IF diff = "easy"
    THEN pushLoop(0, sequenceLength(round), keysEasy, resolution, <<>>)
    ELSE pushLoop(0, sequenceLength(round), keysMedium, resolution, <<>>)

----------------------------------------------------------------------------
(* The program state as one record, so that handlers compose *)

State ==
    [currentRound |-> currentRound, gameSequence |-> gameSequence,
     userSequence |-> userSequence, currentStep |-> currentStep,
     difficulty |-> difficulty, errorCount |-> errorCount,
     keyboardStatus |-> keyboardStatus, startDisplay |-> startDisplay,
     startDisabled |-> startDisabled, newGameDisplay |-> newGameDisplay,
     newGameDisabled |-> newGameDisabled, repeatDisplay |-> repeatDisplay,
     repeatDisabled |-> repeatDisabled, inactive |-> inactive,
     alphaDisplay |-> alphaDisplay, betaDisplay |-> betaDisplay,
     calls |-> 0]

Becomes(s) ==
    /\ currentRound' = s.currentRound
    /\ gameSequence' = s.gameSequence
    /\ userSequence' = s.userSequence
    /\ currentStep' = s.currentStep
    /\ difficulty' = s.difficulty
    /\ errorCount' = s.errorCount
    /\ keyboardStatus' = s.keyboardStatus
    /\ startDisplay' = s.startDisplay
    /\ startDisabled' = s.startDisabled
    /\ newGameDisplay' = s.newGameDisplay
    /\ newGameDisabled' = s.newGameDisabled
    /\ repeatDisplay' = s.repeatDisplay
    /\ repeatDisabled' = s.repeatDisabled
    /\ inactive' = s.inactive
    /\ alphaDisplay' = s.alphaDisplay
    /\ betaDisplay' = s.betaDisplay
    /\ calls' = s.calls

enableKeyboard(s) == [s EXCEPT !.keyboardStatus = TRUE]

disableKeyboard(s) == [s EXCEPT !.keyboardStatus = FALSE]

disableChangeDifficulty(s) == [s EXCEPT !.inactive = TRUE]

enableChangeDifficulty(s) == [s EXCEPT !.inactive = FALSE]

resetGame(s) ==
    enableChangeDifficulty(disableKeyboard(
        [s EXCEPT !.currentRound = 1,
                  !.userSequence = <<>>,
                  !.gameSequence = <<>>,
                  !.currentStep = 0,
                  !.errorCount = 0,
                  !.newGameDisplay = FALSE,
                  !.startDisplay = TRUE,
                  !.repeatDisplay = FALSE]))

\* key === gameSequence[currentStep]; an index past the end reads undefined
keyMatches(s, key) ==
    /\ s.currentStep < Len(s.gameSequence)
    /\ key = s.gameSequence[s.currentStep + 1]

roundComplete(s) == s.currentStep = Len(s.gameSequence)

gameWon_offByOne(s) == s.currentRound > maxRounds

gameWon(s) == s.currentRound >= maxRounds

firstError(s) == s.errorCount < 1

winGame_reset(s) ==
    resetGame([s EXCEPT !.repeatDisabled = TRUE, !.startDisabled = FALSE])

\* the branch "You win game"
winGame(s) == [s EXCEPT !.repeatDisabled = TRUE, !.startDisabled = FALSE]

winRound_skip(s) ==
    [disableKeyboard([s EXCEPT !.currentRound = @ + 2])
     EXCEPT !.startDisplay = TRUE, !.repeatDisplay = FALSE]

\* the branch "You win round"
winRound(s) ==
    [disableKeyboard([s EXCEPT !.currentRound = @ + 1])
     EXCEPT !.startDisplay = TRUE, !.repeatDisplay = FALSE]

firstMismatch_rollback(s) ==
    [s EXCEPT !.errorCount = @ + 1, !.userSequence = <<>>, !.currentStep = 0]

\* the branch "Errors left: 0"
firstMismatch(s) == [s EXCEPT !.errorCount = @ + 1]

fatalMismatch_sameRound(s) ==
    [resetGame([s EXCEPT !.startDisabled = FALSE])
     EXCEPT !.currentRound = s.currentRound]

\* the branch "Try again"
fatalMismatch(s) == resetGame([s EXCEPT !.startDisabled = FALSE])

handleUserInput_storeAll(s0, key) ==
    LET s == [s0 EXCEPT !.calls = @ + 1,
                        !.userSequence = Append(@, key)] IN
    IF keyMatches(s, key)
    THEN LET s1 == [s EXCEPT !.currentStep = @ + 1] IN
         IF roundComplete(s1)
         THEN IF gameWon(s1) THEN winGame(s1) ELSE winRound(s1)
         ELSE s1
    ELSE IF firstError(s) THEN firstMismatch(s)
    ELSE fatalMismatch(s)

handleUserInput(s0, key) ==
    LET s == [s0 EXCEPT !.calls = @ + 1] IN
    IF keyMatches(s, key)
    THEN LET s1 == [s EXCEPT !.userSequence = Append(@, key),
                             !.currentStep = @ + 1] IN
         IF roundComplete(s1)
         THEN IF gameWon(s1) THEN winGame(s1) ELSE winRound(s1)
         ELSE s1
    ELSE IF firstError(s) THEN firstMismatch(s)
    ELSE fatalMismatch(s)

----------------------------------------------------------------------------
(* Playback: highlightSequence and the tail of startRound *)

\* a suspended async call: which listener it belongs to, the await it is
\* suspended in, and how many keys of its sequence are still to be shown
\* (the one being shown included)
Task(kind, pc, left) == [kind |-> kind, pc |-> pc, left |-> left]

startRoundTail_keyboardOff(s) ==
    [s EXCEPT !.newGameDisabled = FALSE, !.repeatDisabled = FALSE]

\* startRound after `await highlightSequence(gameSequence)`
startRoundTail(s) ==
    [enableKeyboard(s) EXCEPT !.newGameDisabled = FALSE,
                              !.repeatDisabled = FALSE]

highlightDone_reenable(s, kind) ==
    startRoundTail([s EXCEPT !.newGameDisabled = FALSE])

\* what runs when highlightSequence returns to the caller of kind `kind`
highlightDone(s, kind) ==
    LET s1 == [s EXCEPT !.newGameDisabled = FALSE] IN
    IF kind = "start" THEN startRoundTail(s1) ELSE s1

\* highlightSequence(sequence) up to its first await: the new state and the
\* tasks it leaves suspended
highlightBegin(s, kind) ==
    LET s1 == [s EXCEPT !.newGameDisabled = TRUE] IN
    IF Len(s.gameSequence) = 0
    THEN [state |-> highlightDone(s1, kind), suspended |-> EmptyBag]
    ELSE [state |-> s1,
          suspended |-> SetToBag({Task(kind, "highlight",
                                       Len(s.gameSequence))})]

----------------------------------------------------------------------------
(* Initial state: the page after the script has run *)

Init ==
    /\ currentRound = 1
    /\ gameSequence = <<>>
    /\ userSequence = <<>>
    /\ currentStep = 0
    /\ difficulty = "easy"
    /\ errorCount = 0
    /\ keyboardStatus = FALSE
    /\ startDisplay = TRUE
    /\ startDisabled = FALSE
    \* the script sets no display of these three before the first listener
    \* runs: the stylesheet decides
    /\ newGameDisplay \in BOOLEAN
    /\ newGameDisabled = FALSE
    /\ repeatDisplay \in BOOLEAN
    /\ repeatDisabled = TRUE
    /\ inactive = FALSE
    /\ alphaDisplay = TRUE
    /\ betaDisplay \in BOOLEAN
    /\ tasks = EmptyBag
    /\ event = "load"
    /\ calls = 0

----------------------------------------------------------------------------
(* Listeners *)

startRound_keepErrors(s, sequence) ==
    disableChangeDifficulty(
        [s EXCEPT !.userSequence = <<>>,
                  !.currentStep = 0,
                  !.gameSequence = sequence,
                  !.startDisplay = FALSE,
                  !.newGameDisplay = TRUE,
                  !.repeatDisplay = TRUE,
                  !.newGameDisabled = TRUE])

\* startRound up to `await delay(1000)`
startRound(s, sequence) ==
    disableChangeDifficulty(
        [s EXCEPT !.userSequence = <<>>,
                  !.currentStep = 0,
                  !.errorCount = 0,
                  !.gameSequence = sequence,
                  !.startDisplay = FALSE,
                  !.newGameDisplay = TRUE,
                  !.repeatDisplay = TRUE,
                  !.newGameDisabled = TRUE])

\* click on the start button, Math.random() of the given resolution, with at
\* most maxTasks playbacks pending afterwards
StartClickFor(resolution, maxTasks) ==
    /\ startDisplay
    /\ ~startDisabled
    /\ BagCardinality(tasks) < maxTasks
    /\ \E sequence \in generateSequence(currentRound, difficulty, resolution) :
           Becomes(startRound(State, sequence))
    /\ tasks' = tasks (+) SetToBag({Task("start", "delay1000", 0)})
    /\ event' = "start"

StartClickWith(resolution) == StartClickFor(resolution, MaxTasks)

StartClick == StartClickWith(RandomResolution)

repeatListener_newBudget(s) ==
    highlightBegin([s EXCEPT !.repeatDisabled = TRUE,
                             !.userSequence = <<>>,
                             !.currentStep = 0,
                             !.errorCount = 0],
                   "repeat")

\* the click listener of the repeat button up to its first await
repeatListener(s) ==
    highlightBegin([s EXCEPT !.repeatDisabled = TRUE,
                             !.userSequence = <<>>,
                             !.currentStep = 0],
                   "repeat")

\* click on the repeat button, with at most maxTasks playbacks pending
\* afterwards
RepeatClickFor(maxTasks) ==
    /\ repeatDisplay
    /\ ~repeatDisabled
    /\ BagCardinality(tasks) < maxTasks
    /\ Becomes(repeatListener(State).state)
    /\ tasks' = tasks (+) repeatListener(State).suspended
    /\ event' = "repeat"

RepeatClick == RepeatClickFor(MaxTasks)

\* click on the new-game button
NewGameClick ==
    /\ newGameDisplay
    /\ ~newGameDisabled
    /\ Becomes(resetGame(State))
    /\ event' = "new"
    /\ UNCHANGED tasks

difficultyListener_noReset(s, d) ==
    [s EXCEPT !.difficulty = d,
              !.alphaDisplay = (d # "medium"),
              !.betaDisplay = (d # "easy")]

\* the click listener of the difficulty item d
difficultyListener(s, d) ==
    resetGame([s EXCEPT !.difficulty = d,
                        !.alphaDisplay = (d # "medium"),
                        !.betaDisplay = (d # "easy")])

\* click on one of the three difficulty items
DifficultyClick(d) ==
    /\ Becomes(difficultyListener(State, d))
    /\ event' = "difficulty"
    /\ UNCHANGED tasks

keydownListener_hardOnly(s, eventKey, diff, allowed) ==
    IF s.difficulty # "hard" \/ diff # "hard" THEN s
    ELSE IF ~s.keyboardStatus THEN s
    ELSE LET key == toUpperCase(eventKey) IN
         IF key \in Range(allowed) THEN handleUserInput(s, key) ELSE s

keydownListener_anyDifficulty(s, eventKey, diff, allowed) ==
    IF ~s.keyboardStatus THEN s
    ELSE LET key == toUpperCase(eventKey) IN
         IF key \in Range(allowed) THEN handleUserInput(s, key) ELSE s

\* one keydown listener: the difficulty it serves and the keys it lets pass
keydownListener(s, eventKey, diff, allowed) ==
    IF s.difficulty # diff THEN s
    ELSE IF ~s.keyboardStatus THEN s
    ELSE LET key == toUpperCase(eventKey) IN
         IF key \in Range(allowed) THEN handleUserInput(s, key) ELSE s

\* a keydown event: the three listeners run in the order they were added
keydown(s, eventKey) ==
    keydownListener(
        keydownListener(
            keydownListener(s, eventKey, "hard", keysHard),
            eventKey, "medium", keysMedium),
        eventKey, "easy", keysEasy)

KeyDown(eventKey) ==
    /\ Becomes(keydown(State, eventKey))
    /\ event' = "keydown"
    /\ UNCHANGED tasks

\* the on-screen keys a click can reach
visibleKeys ==
    (IF alphaDisplay THEN keyboardLayoutAlpha ELSE {})
        \cup (IF betaDisplay THEN keyboardLayoutBeta ELSE {})

\* click on (or Enter / Space on the focused) on-screen key
KeyClick(key) ==
    /\ key \in visibleKeys
    /\ Becomes(handleUserInput(State, key))
    /\ event' = "keyclick"
    /\ UNCHANGED tasks

----------------------------------------------------------------------------
(* Timers: the continuation of a suspended async call *)

\* the state and the task (if any) after the awaited timers of task t have
\* fired: the delay(1000) of startRound, or the two delay(500) of one turn of
\* the loop of highlightSequence (the first of the two only takes the class
\* "active" off the key shown)
resume(s, t) ==
    IF t.pc = "delay1000"
    THEN highlightBegin(s, t.kind)
    ELSE IF t.left > 1
    THEN [state |-> s,
          suspended |-> SetToBag({Task(t.kind, "highlight", t.left - 1)})]
    ELSE [state |-> highlightDone(s, t.kind), suspended |-> EmptyBag]

\* the timer step that runs the tail of startRound is told apart from the
\* other timer steps
TimerFires(t) ==
    /\ BagIn(t, tasks)
    /\ LET r == resume(State, t)
       IN  /\ Becomes(r.state)
           /\ tasks' = (tasks (-) SetToBag({t})) (+) r.suspended
           /\ event' = IF t.kind = "start" /\ r.suspended = EmptyBag
                       THEN "tail" ELSE "timer"

Tasks ==
    {Task(kind, pc, left) :
        kind \in {"start", "repeat"},
        pc \in {"delay1000", "highlight"},
        left \in 0 .. sequenceLength(maxRounds)}

Next ==
    \/ StartClick
    \/ RepeatClick
    \/ NewGameClick
    \/ \E d \in Difficulties : DifficultyClick(d)
    \/ \E eventKey \in TypedKeys : KeyDown(eventKey)
    \/ \E key \in ClickedKeys : KeyClick(key)
    \/ \E t \in Tasks : TimerFires(t)

Spec == Init /\ [][Next]_vars

\* every pending timer fires in the end
Fairness == WF_vars(\E t \in Tasks : TimerFires(t))

SpecLive == Spec /\ Fairness

----------------------------------------------------------------------------
(* Overlapping playbacks: the player does not wait for a playback to end    *)
(* before the next start or repeat                                          *)

NextRace ==
    \/ StartClickFor(RandomResolution, MaxRaceTasks)
    \/ RepeatClickFor(MaxRaceTasks)
    \/ NewGameClick
    \/ \E d \in Difficulties : DifficultyClick(d)
    \/ \E eventKey \in TypedKeys : KeyDown(eventKey)
    \/ \E key \in ClickedKeys : KeyClick(key)
    \/ \E t \in Tasks : TimerFires(t)

SpecRace == Init /\ [][NextRace]_vars

----------------------------------------------------------------------------
(* generateSequence alone: the states in which a round is about to start,   *)
(* for every round and difficulty, and the start of that round              *)

\* the page when round `round` is about to start: after a reset for round 1,
\* after the last key of the round before was accepted otherwise
aboutToStart(round, diff, previous) ==
    /\ currentRound = round
    /\ difficulty = diff
    /\ gameSequence = previous
    /\ userSequence = previous
    /\ currentStep = Len(previous)
    /\ errorCount = 0
    /\ keyboardStatus = FALSE
    /\ startDisplay = TRUE
    /\ startDisabled = FALSE
    /\ newGameDisplay = (round > 1)
    /\ newGameDisabled = FALSE
    /\ repeatDisplay = FALSE
    /\ repeatDisabled = (round = 1)
    /\ inactive = (round > 1)
    /\ alphaDisplay = (diff # "medium")
    /\ betaDisplay = (diff # "easy")
    /\ tasks = EmptyBag
    /\ event = IF round = 1 THEN "difficulty" ELSE "keyclick"
    /\ calls = IF round = 1 THEN 0 ELSE 1

InitGen ==
    \E round \in 1 .. maxRounds, diff \in Difficulties :
        \E previous \in (IF round = 1 THEN {<<>>}
                          ELSE generateSequence(round - 1, diff, 1)) :
            aboutToStart(round, diff, previous)

NextGen == StartClickWith(GenRandomResolution)

SpecGen == InitGen /\ [][NextGen]_vars

----------------------------------------------------------------------------
(* Vocabulary of the properties *)

Digits == {"0", "1", "2", "3", "4", "5", "6", "7", "8", "9"}

Letters == {"A", "B", "C", "D", "E", "F", "G", "H", "I", "J", "K", "L", "M",
            "N", "O", "P", "Q", "R", "S", "T", "U", "V", "W", "X", "Y", "Z"}

\* the alphabet the specification gives each difficulty
AlphabetOf(d) ==
    IF d = "easy" THEN Digits
    ELSE IF d = "medium" THEN Letters
    ELSE Digits \cup Letters

\* the sequence lengths the specification gives the rounds 1 .. 5
LengthOfRound == <<2, 4, 6, 8, 10>>

\* the keys the player of the model uses
InputKeys == TypedKeys \cup ClickedKeys

\* this step is a key press or a key click of key k that ran handleUserInput
Handled(k) == calls' = 1 /\ (KeyDown(k) \/ KeyClick(k))

\* the symbol of key k is the one the sequence expects next
Expected(k) ==
    /\ currentStep < Len(gameSequence)
    /\ toUpperCase(k) = gameSequence[currentStep + 1]

\* this step is a key press or a key click
InputStep == event' \in {"keydown", "keyclick"}

\* a playback (highlightSequence) has started and not yet completed
PlaybackInProgress == \E t \in BagToSet(tasks) : t.pc = "highlight"

----------------------------------------------------------------------------
(* C1 *)

\* C1: with the keyboard enabled, every accepted symbol extends userSequence
\* to the next prefix of gameSequence; the step that accepts the last symbol
\* makes userSequence equal to gameSequence and, below round 5, is the
\* round-won transition (currentRound + 1, keyboard disabled), in round 5 the
\* game-won transition (currentRound stays 5).
C1_InOrderCompletes ==
    [][calls' = 1 /\ keyboardStatus =>
        \A k \in InputKeys :
            Handled(k) /\ Expected(k) =>
                /\ userSequence' = SubSeq(gameSequence, 1, currentStep + 1)
                /\ currentStep' = currentStep + 1
                /\ gameSequence' = gameSequence
                /\ IF currentStep + 1 < Len(gameSequence)
                   THEN currentRound' = currentRound /\ keyboardStatus'
                   ELSE /\ userSequence' = gameSequence
                        /\ IF currentRound < maxRounds
                           THEN /\ currentRound' = currentRound + 1
                                /\ ~keyboardStatus'
                                /\ startDisplay'
                           ELSE /\ currentRound = 5
                                /\ currentRound' = 5
                                /\ keyboardStatus'
                                /\ repeatDisabled']_vars

\* the round-5 sequence has just been completed with the keyboard enabled
C1_Witness ==
    /\ calls = 1
    /\ keyboardStatus
    /\ currentRound = 5
    /\ Len(gameSequence) = 10
    /\ userSequence = gameSequence

----------------------------------------------------------------------------
(* C2 *)

\* C2: a key press or an on-screen key activation that arrives while the
\* keyboard-enabled flag is false does not run handleUserInput and leaves
\* userSequence, currentStep, errorCount, currentRound and gameSequence alone.
C2_IgnoredWhileDisabled ==
    [][InputStep /\ ~keyboardStatus =>
        /\ calls' = 0
        /\ UNCHANGED <<userSequence, currentStep, errorCount, currentRound,
                       gameSequence>>]_vars

----------------------------------------------------------------------------
(* C3 *)

\* C3: a symbol that is not the expected one, with no error made yet in the
\* round, changes errorCount to 1 and nothing else of the game state.
C3_FirstMismatch ==
    [][calls' = 1 /\ errorCount = 0 =>
        \A k \in InputKeys :
            Handled(k) /\ ~Expected(k) =>
                /\ errorCount' = 1
                /\ UNCHANGED <<userSequence, currentStep, gameSequence,
                               currentRound, keyboardStatus, difficulty>>]_vars

\* a first mistake has just been made in the middle of a sequence
C3_Witness ==
    /\ calls = 1
    /\ errorCount = 1
    /\ keyboardStatus
    /\ 0 < currentStep
    /\ currentStep < Len(gameSequence)
    /\ currentRound = 2

----------------------------------------------------------------------------
(* C4 *)

\* C4: a symbol that is not the expected one, with the error of the round
\* spent, resets the game whatever the round: round 1, both sequences empty,
\* cursor 0, no error, keyboard disabled, start control visible and enabled.
C4_SecondMismatch ==
    [][calls' = 1 /\ errorCount = 1 =>
        \A k \in InputKeys :
            Handled(k) /\ ~Expected(k) =>
                /\ currentRound' = 1
                /\ userSequence' = <<>>
                /\ gameSequence' = <<>>
                /\ currentStep' = 0
                /\ errorCount' = 0
                /\ ~keyboardStatus'
                /\ startDisplay'
                /\ ~startDisabled']_vars

\* the game has just been reset by a key (a handled key that leaves no error
\* and no sequence behind), while a round was on (its controls still enabled)
C4_Witness ==
    /\ calls = 1
    /\ gameSequence = <<>>
    /\ errorCount = 0
    /\ currentRound = 1
    /\ startDisplay
    /\ ~repeatDisabled

----------------------------------------------------------------------------
(* C5 *)

\* this step accepts the last symbol of the round-5 sequence
GameWonStep ==
    /\ calls' = 1
    /\ currentRound = maxRounds
    /\ \E k \in InputKeys :
           Handled(k) /\ Expected(k) /\ currentStep + 1 = Len(gameSequence)

\* this step handles a wrong symbol after the error of the round was spent
FatalMismatchStep ==
    /\ calls' = 1
    /\ errorCount = 1
    /\ \E k \in InputKeys : Handled(k) /\ ~Expected(k)

\* C5 as stated: the game-won transition resets currentRound to 1 and
\* errorCount to 0.
C5_Original ==
    [][GameWonStep => currentRound' = 1 /\ errorCount' = 0]_vars

\* C5 amended: the game-won transition leaves currentRound at 5 and errorCount
\* as it is; a fatal mismatch resets currentRound to 1 and errorCount to 0.
C5_Amended ==
    [][/\ GameWonStep => currentRound' = 5 /\ errorCount' = errorCount
       /\ FatalMismatchStep => currentRound' = 1 /\ errorCount' = 0]_vars

\* the game has just been won after a mistake in round 5
C5_Witness ==
    /\ calls = 1
    /\ currentRound = 5
    /\ Len(gameSequence) = 10
    /\ userSequence = gameSequence
    /\ errorCount = 1

----------------------------------------------------------------------------
(* C6 *)

\* C6: a repeat request, and the playback it starts, leave currentRound,
\* errorCount and gameSequence (and difficulty and the keyboard flag) alone;
\* the request empties userSequence and sets currentStep to 0.
C6_RepeatFrame ==
    [][/\ event' = "repeat" =>
            /\ userSequence' = <<>>
            /\ currentStep' = 0
            /\ UNCHANGED <<currentRound, errorCount, gameSequence,
                           difficulty, keyboardStatus>>
       /\ \A t \in BagToSet(tasks) :
            t.kind = "repeat" /\ TimerFires(t) => UNCHANGED gameVars]_vars

\* a repeat has just been requested in round 2 after a mistake
C6_Witness ==
    /\ event = "repeat"
    /\ currentRound = 2
    /\ errorCount = 1
    /\ Len(gameSequence) = 4
    /\ PlaybackInProgress

----------------------------------------------------------------------------
(* C7 *)

\* C7: the sequence generated for round r has length 2, 4, 6, 8, 10 for
\* r = 1 .. 5, for every difficulty and every random choice.
C7_Length ==
    event = "start" => Len(gameSequence) = LengthOfRound[currentRound]

\* a sequence of 10 symbols has been generated for round 5 on hard
C7_Witness ==
    /\ event = "start"
    /\ currentRound = 5
    /\ difficulty = "hard"
    /\ Len(gameSequence) = 10

----------------------------------------------------------------------------
(* C8 *)

\* C8: every symbol of a generated sequence is in the alphabet of the
\* difficulty active when it was generated.
C8_Alphabet ==
    event = "start" =>
        \A i \in 1 .. Len(gameSequence) :
            gameSequence[i] \in AlphabetOf(difficulty)

\* a hard sequence with a digit and a letter has been generated
C8_Witness ==
    /\ event = "start"
    /\ difficulty = "hard"
    /\ \E i, j \in 1 .. Len(gameSequence) :
           gameSequence[i] \in Digits /\ gameSequence[j] \in Letters

----------------------------------------------------------------------------
(* C9 *)

\* C9: with the keyboard enabled, a key press runs handleUserInput exactly
\* when its upper-cased symbol is in the alphabet of the active difficulty,
\* never more than once, and a rejected key press changes nothing: stated of
\* every value of event.key, in every reachable state.
C9_KeyFilter ==
    keyboardStatus =>
        \A k \in EventKeys :
            LET s == keydown(State, k) IN
            /\ s.calls = IF toUpperCase(k) \in AlphabetOf(difficulty)
                         THEN 1 ELSE 0
            /\ s.calls = 0 => s = State

\* on easy, with the keyboard enabled and a sequence to replay, a key press
\* has just been rejected
C9_Witness ==
    /\ event = "keydown"
    /\ calls = 0
    /\ keyboardStatus
    /\ difficulty = "easy"
    /\ currentStep < Len(gameSequence)

----------------------------------------------------------------------------
(* C10 *)

\* C10: while a playback is in progress no step runs handleUserInput.
C10_NoInputDuringPlayback ==
    [][PlaybackInProgress => calls' = 0]_vars

----------------------------------------------------------------------------
(* C11, C12 *)

\* the playbacks (highlightSequence) that have started and not yet completed
Playing ==
    [t \in {u \in BagToSet(tasks) : u.pc = "highlight"} |-> tasks[t]]

\* C11: at most one playback is in progress at any time, and at most one
\* startRound or repeat has not yet completed.
C11_OnePlayback ==
    /\ BagCardinality(Playing) <= 1
    /\ BagCardinality(tasks) <= 1

\* C12: the new-game control is disabled in every state in which a startRound
\* or a repeat has started and its playback has not yet completed.
C12_NewGameDisabledDuringPlayback ==
    tasks # EmptyBag => newGameDisabled

----------------------------------------------------------------------------
(* C13 *)

\* C13: in every reachable state userSequence is a prefix of gameSequence.
C13_Prefix ==
    /\ Len(userSequence) <= Len(gameSequence)
    /\ \A i \in 1 .. Len(userSequence) : userSequence[i] = gameSequence[i]

\* a mismatch has been made in a round of which a proper, non-empty prefix is
\* stored
C13_Witness ==
    /\ errorCount = 1
    /\ calls = 1
    /\ userSequence # <<>>
    /\ Len(userSequence) < Len(gameSequence)

----------------------------------------------------------------------------
(* C14 *)

\* the playback of a startRound has just completed and the keyboard, the
\* new-game control and the repeat control are enabled
Ready ==
    /\ event = "tail"
    /\ keyboardStatus
    /\ ~newGameDisabled
    /\ ~repeatDisabled

\* C14: if every timer fires in the end, every start-round request leads to a
\* state in which the playback of a startRound has just completed and the
\* keyboard, the new-game control and the repeat control are enabled.
C14_StartLeadsToReady == (event = "start") ~> Ready

\* the last timer of the playback of a round has just fired
C14_Witness ==
    /\ Ready
    /\ tasks = EmptyBag
    /\ gameSequence # <<>>
    /\ currentStep = 0

----------------------------------------------------------------------------
(* C15 *)

\* C15 as stated: on easy and on medium no key press runs handleUserInput.
C15_Original ==
    [][event' = "keydown" /\ difficulty # "hard" => calls' = 0]_vars

\* C15, amended: on every difficulty, with the keyboard enabled, the press of
\* a key whose upper-cased symbol is in the alphabet of the difficulty runs
\* handleUserInput, and so does every click on an on-screen key.
C15_Amended ==
    [][\A k \in InputKeys :
          /\ KeyDown(k) /\ keyboardStatus
                /\ toUpperCase(k) \in AlphabetOf(difficulty) => calls' = 1
          /\ KeyClick(k) => calls' = 1]_vars

\* on medium a key press has just been accepted as the next symbol
C15_Witness ==
    /\ event = "keydown"
    /\ calls = 1
    /\ difficulty = "medium"
    /\ userSequence # <<>>

----------------------------------------------------------------------------
(* C16 *)

\* C16: from the start of a round until the next reset, a click on a
\* difficulty item changes neither the difficulty nor any other game state.
C16_DifficultyLocked ==
    [][inactive /\ event' = "difficulty" => UNCHANGED gameVars]_vars

----------------------------------------------------------------------------
(* C17 *)

\* C17: every start of a round sets errorCount to 0.
C17_BudgetPerRound == [][event' = "start" => errorCount' = 0]_vars

\* a round after the first has just been started
C17_Witness ==
    /\ event = "start"
    /\ currentRound > 1
    /\ errorCount = 0
    /\ Len(gameSequence) = sequenceLength(currentRound)

----------------------------------------------------------------------------
(* C18 *)

\* C18: in every reachable state each symbol of gameSequence is in the
\* alphabet of the selected difficulty, and a step that changes the
\* difficulty empties gameSequence.
C18_SequenceOfDifficulty ==
    /\ [](\A i \in 1 .. Len(gameSequence) :
              gameSequence[i] \in AlphabetOf(difficulty))
    /\ [][difficulty' # difficulty => gameSequence' = <<>>]_vars

\* a round is being played on medium, which only a difficulty change reaches
C18_Witness ==
    /\ difficulty = "medium"
    /\ gameSequence # <<>>
    /\ keyboardStatus

----------------------------------------------------------------------------
(* C19 *)

\* this step runs handleUserInput once and accepts the last symbol of the
\* non-empty gameSequence
LastSymbolAccepted ==
    /\ calls' = 1
    /\ gameSequence # <<>>
    /\ gameSequence' = gameSequence
    /\ currentStep = Len(gameSequence) - 1
    /\ userSequence' = gameSequence

\* C19: in every step currentRound stays the same, or becomes 1 through a
\* reset, or increases by exactly 1; it increases only in the step that
\* accepts the last symbol of the non-empty gameSequence while
\* currentRound < maxRounds.
C19_NoRoundSkipped ==
    [][\/ currentRound' = currentRound
       \/ currentRound' = 1 /\ gameSequence' = <<>> /\ userSequence' = <<>>
       \/ /\ currentRound' = currentRound + 1
          /\ currentRound < maxRounds
          /\ LastSymbolAccepted]_vars

\* round 2 has just been won
C19_Witness ==
    /\ calls = 1
    /\ currentRound = 3
    /\ userSequence = gameSequence
    /\ Len(gameSequence) = sequenceLength(2)

----------------------------------------------------------------------------
(* C20 *)

\* this step is the last timer of the playback of a startRound
StartPlaybackCompletes ==
    \E t \in BagToSet(tasks) :
        /\ t.kind = "start"
        /\ TimerFires(t)
        /\ resume(State, t).suspended = EmptyBag

====
